---- MODULE Spec2Model ----
(***************************************************************************)
(* Model of the beatmaker of LolliPad: the look-ahead step sequencer       *)
(* DrumMachine (src/utils/AudioAnalyser.ts) driven by the MusicStudio      *)
(* component (src/unnamed/part_001), and the level meter AudioAnalyser     *)
(* (src/utils/AudioAnalyser.ts), which runs on animation frames, and one   *)
(* button of the launchpad, LaunchpadButton (src/unnamed/part_003).        *)
(*                                                                         *)
(* Time.  The audio clock and the fire-time cursor are JavaScript numbers  *)
(* in seconds.  The model counts time in units of 1/120 s, in which the    *)
(* 0.1 s look-ahead window is 12 units, the 25 ms timer period is 3 units  *)
(* and the sixteenth-note interval 0.25 * 60 / tempo is 1800 / tempo       *)
(* units: an integer for every tempo the model uses (120, 150, 180).      *)
(*                                                                         *)
(* Arrays.  A boolean[] is a sequence; TLA+ index i+1 is JavaScript index  *)
(* i.  Reading a JavaScript array past its end yields undefined, which     *)
(* every reader in the code treats as false (if (x), !x, x || false).      *)
(***************************************************************************)
EXTENDS Integers, Sequences, FiniteSets, TLC

VARIABLES dm, ui, now, intervals, out, meter, pad

vars == <<dm, ui, now, intervals, out, meter, pad>>

----------------------------------------------------------------------------
(* Bounds of the model *)

\* the audio clock stops advancing at MaxTime (units of 1/120 s)
MaxTime == 30

\* the level meter's byte array has MeterBins elements (frequencyBinCount)
MeterBins == 3

\* start() of the level meter is not called with MaxCallbacks frame callbacks
\* already pending
MaxCallbacks == 3

----------------------------------------------------------------------------
(* Program constants *)

ALL_INSTRUMENTS == <<"kick", "snare", "hat", "clap", "tom", "cymbal">>

Instrument == {"kick", "snare", "hat", "clap", "tom", "cymbal"}

\* the kit names the beatmaker's <select> offers
KITS == {"Electronic", "808", "Acoustic", "Rock", "Jazz", "Funk", "Brush", "Studio"}

\* the keys of DrumMachine.kits, each mapping all six instruments to a recipe
kits == {"Electronic", "808", "Acoustic"}

\* scheduleAheadTime = 0.1 s
scheduleAheadTime == 12

\* lookahead = 25.0 ms, the period of the poll timer
lookahead == 3

\* the step index wraps at the literal 16 in nextNote
StepModulus == 16

\* timerId = null
NoTimer == 0

\* rafId = null
NoFrame == 0

\* average / 128.0
LevelDivisor == 128

F == FALSE
T == TRUE

PREMADE_BEATS == <<
  [kick   |-> <<T, F, F, F, T, F, F, F, T, F, F, F, T, F, F, F>>,
   snare  |-> <<F, F, F, F, T, F, F, F, F, F, F, F, T, F, F, F>>,
   hat    |-> <<F, F, T, F, F, F, T, F, F, F, T, F, F, F, T, F>>,
   clap   |-> <<F, F, F, F, T, F, F, F, F, F, F, F, T, F, F, F>>,
   tom    |-> <<F, F, F, F, F, F, F, F, F, F, F, F, F, T, F, T>>,
   cymbal |-> <<T, F, F, F, F, F, F, F, F, F, F, F, F, F, F, F>>],
  [kick   |-> <<T, F, F, T, F, F, T, F, T, F, F, F, F, F, T, F>>,
   snare  |-> <<F, F, F, F, T, F, F, F, F, F, F, F, T, F, F, F>>,
   hat    |-> <<T, T, T, T, T, T, T, T, T, T, T, T, T, T, T, T>>,
   clap   |-> <<F, F, F, F, T, F, F, F, F, F, F, F, T, F, F, F>>,
   tom    |-> <<F, F, F, F, F, F, F, F, F, F, F, F, F, F, F, F>>,
   cymbal |-> <<F, F, F, F, F, F, F, T, F, F, F, F, F, F, F, T>>],
  [kick   |-> <<T, F, F, F, F, F, F, T, F, F, T, F, F, F, F, F>>,
   snare  |-> <<F, F, F, F, T, F, F, F, F, F, F, F, T, F, F, F>>,
   hat    |-> <<T, F, T, T, T, F, T, T, T, F, T, T, T, F, T, T>>,
   clap   |-> <<F, F, F, F, T, F, F, F, F, F, F, F, T, F, F, F>>,
   tom    |-> <<F, F, F, F, F, F, F, F, F, F, F, F, F, F, F, F>>,
   cymbal |-> <<T, F, F, F, F, F, F, F, T, F, F, F, F, F, F, F>>],
  [kick   |-> <<T, F, F, T, F, F, T, F, F, T, F, T, F, F, F, F>>,
   snare  |-> <<F, F, F, F, T, F, F, F, F, F, F, F, T, F, F, T>>,
   hat    |-> <<T, F, T, F, T, F, T, F, T, F, T, F, T, F, T, F>>,
   clap   |-> <<F, F, F, F, F, F, F, F, F, F, F, F, F, F, F, F>>,
   tom    |-> <<F, F, F, F, F, F, F, F, F, F, F, F, F, F, T, F>>,
   cymbal |-> <<F, F, F, F, F, F, F, F, F, F, F, F, F, F, F, F>>] >>

----------------------------------------------------------------------------
(* Inputs the model draws from *)

\* values the tempo handler is given
TempoInputs == {150, 200}

\* options of the kit <select> the user picks
KitInputs == {"Rock"}

\* the loop lengths the three length buttons pass
LengthInputs == {4, 8}

\* grid cells the user clicks
ToggleInstruments == {"kick"}
ToggleSteps == {0}

\* the beats (indices of PREMADE_BEATS) Math.random picks
PresetInputs == {1}

\* the same inputs for runs that only edit the grid: all three length
\* buttons, cells of two rows, every premade beat
GridLengths == {4, 8, 16}
GridInstruments == {"kick", "tom"}
GridSteps == {0, 3, 7, 15}
GridPresets == {1, 2, 3, 4}

\* the time the timer's callbacks can be held back, and the clock's last
\* value in runs with such delays
LongDelay == 20 * lookahead
LongMaxTime == 8 * MaxTime

\* control-change messages the MIDI dispatcher delivers to a button
ControlChanges == [channel : {0, 1}, cc : {0, 7}, value : {0, 127}]

\* values of the beatmaker's volume slider (min 0, max 1, step 0.01), in
\* hundredths
VolumeInputs == {0, 50}

\* values the launchpad's tempo input passes to updateLaunchpadTempo
LaunchpadTempoInputs == {90, 200}

\* step indices a caller of toggleStep passes, inside and outside the loop
StoreSteps == {0, 3, 9, 16}

\* values getByteFrequencyData writes into a bin (a Uint8Array element)
ByteSamples == {0, 128, 255}

\* contents getByteFrequencyData can leave in dataArray
DataArrays == [1..MeterBins -> ByteSamples]

----------------------------------------------------------------------------
(* Helpers *)

Min(a, b) == IF a < b THEN a ELSE b
Max(a, b) == IF a > b THEN a ELSE b

\* Array(n).fill(false)
ArrayFill(n) == [i \in 1..n |-> FALSE]

\* arr[i], with undefined (a read past the end) read as false
At(arr, i) == IF i + 1 \in DOMAIN arr THEN arr[i + 1] ELSE FALSE

\* arr[i] = v on a copy of arr; writing past the end lengthens the array
SetAt(arr, i, v) ==
  [k \in 1..Max(Len(arr), i + 1) |-> IF k = i + 1 THEN v ELSE At(arr, k - 1)]

\* 0.25 * (60.0 / tempo) seconds, in units of 1/120 s
StepInterval(tempo) == 1800 \div tempo

Last(s) == s[Len(s)]

----------------------------------------------------------------------------
(* What the last step did to the transport, as its caller and the audio   *)
(* graph observe it: op is the DrumMachine operation it ran ("start",     *)
(* "stop", "poll", or "none"), log the sequence, in program order, of the *)
(* recipe invocations and dispatched 'step' events of that operation, and *)
(* threw says an exception left it.                                       *)

RecipeCall(kit, instrument, time, beatNumber) ==
  [kind |-> "recipe", kit |-> kit, instrument |-> instrument,
   time |-> time, step |-> beatNumber]

StepEvent(detail) ==
  [kind |-> "step", kit |-> "", instrument |-> "", time |-> 0, step |-> detail]

Quiet == [op |-> "none", log |-> <<>>, threw |-> FALSE]

IsStep(e) == e.kind = "step"
IsRecipe(e) == e.kind = "recipe"
Events(o) == SelectSeq(o.log, IsStep)
Invoked(o) == SelectSeq(o.log, IsRecipe)

----------------------------------------------------------------------------
(* DrumMachine *)

\* the instruments whose flag at beatNumber is set, in the order of the six ifs
ActiveAt(d, beatNumber) ==
  LET on(i) == At(d.patterns[i], beatNumber)
  IN  SelectSeq(ALL_INSTRUMENTS, on)

\* scheduleNote handing each recipe a fire time one timer period late
scheduleNote_lateTime(d, beatNumber, time) ==
  LET active == ActiveAt(d, beatNumber)
  IN  IF d.selectedKit \in kits
      THEN [calls |-> [k \in 1..Len(active) |->
                         RecipeCall(d.selectedKit, active[k], time + lookahead, beatNumber)],
            threw |-> FALSE]
      ELSE [calls |-> <<>>, threw |-> active # <<>>]

\* kits[selectedKit] is undefined for a name that is no key of kits; the
\* first kit.<instrument>(time) then raises a TypeError
scheduleNote(d, beatNumber, time) ==
  LET active == ActiveAt(d, beatNumber)
  IN  IF d.selectedKit \in kits
      THEN [calls |-> [k \in 1..Len(active) |->
                         RecipeCall(d.selectedKit, active[k], time, beatNumber)],
            threw |-> FALSE]
      ELSE [calls |-> <<>>, threw |-> active # <<>>]

\* nextNote adding the interval of the initial tempo, not of this.tempo
nextNote_initialTempo(d) ==
  [d EXCEPT !.nextNoteTime = @ + StepInterval(120),
            !.currentStep = (@ + 1) % StepModulus]

nextNote(d) ==
  [d EXCEPT !.nextNoteTime = @ + StepInterval(d.tempo),
            !.currentStep = (@ + 1) % StepModulus]

\* schedulerLoop calling nextNote() before scheduleNote(), so that the event of
\* a step precedes the step's recipe invocations
RECURSIVE schedulerLoop_eventFirst(_, _, _)
schedulerLoop_eventFirst(d, t, o) ==
  IF d.nextNoteTime < t + scheduleAheadTime
  THEN LET sn == scheduleNote(d, d.currentStep, d.nextNoteTime)
       IN  IF sn.threw
           THEN [d |-> d, o |-> [o EXCEPT !.threw = TRUE]]
           ELSE LET d2 == nextNote(d)
                IN  schedulerLoop_eventFirst(d2, t,
                      [o EXCEPT !.log = @ \o <<StepEvent(d2.currentStep)>> \o
                                          sn.calls])
  ELSE [d |-> d, o |-> o]

\* schedulerLoop looking two windows ahead
RECURSIVE schedulerLoop_doubleWindow(_, _, _)
schedulerLoop_doubleWindow(d, t, o) ==
  IF d.nextNoteTime < t + 2 * scheduleAheadTime
  THEN LET sn == scheduleNote(d, d.currentStep, d.nextNoteTime)
       IN  IF sn.threw
           THEN [d |-> d, o |-> [o EXCEPT !.threw = TRUE]]
           ELSE LET d2 == nextNote(d)
                IN  schedulerLoop_doubleWindow(d2, t,
                      [o EXCEPT !.log = @ \o sn.calls \o
                                          <<StepEvent(d2.currentStep)>>])
  ELSE [d |-> d, o |-> o]

\* schedulerLoop with the window test written <= instead of <
RECURSIVE schedulerLoop_inclusive(_, _, _)
schedulerLoop_inclusive(d, t, o) ==
  IF d.nextNoteTime <= t + scheduleAheadTime
  THEN LET sn == scheduleNote(d, d.currentStep, d.nextNoteTime)
       IN  IF sn.threw
           THEN [d |-> d, o |-> [o EXCEPT !.threw = TRUE]]
           ELSE LET d2 == nextNote(d)
                IN  schedulerLoop_inclusive(d2, t,
                      [o EXCEPT !.log = @ \o sn.calls \o
                                          <<StepEvent(d2.currentStep)>>])
  ELSE [d |-> d, o |-> o]

\* schedulerLoop whose event carries the index of the step just scheduled
RECURSIVE schedulerLoop_announcesPlayed(_, _, _)
schedulerLoop_announcesPlayed(d, t, o) ==
  IF d.nextNoteTime < t + scheduleAheadTime
  THEN LET sn == scheduleNote(d, d.currentStep, d.nextNoteTime)
       IN  IF sn.threw
           THEN [d |-> d, o |-> [o EXCEPT !.threw = TRUE]]
           ELSE LET d2 == nextNote(d)
                IN  schedulerLoop_announcesPlayed(d2, t,
                      [o EXCEPT !.log = @ \o sn.calls \o
                                          <<StepEvent(d.currentStep)>>])
  ELSE [d |-> d, o |-> o]

\* the while loop of scheduler(), at audio-clock time t, appending to o
RECURSIVE schedulerLoop(_, _, _)
schedulerLoop(d, t, o) ==
  IF d.nextNoteTime < t + scheduleAheadTime
  THEN LET sn == scheduleNote(d, d.currentStep, d.nextNoteTime)
       IN  IF sn.threw
           THEN [d |-> d, o |-> [o EXCEPT !.threw = TRUE]]
           ELSE LET d2 == nextNote(d)
                IN  schedulerLoop(d2, t,
                      [o EXCEPT !.log = @ \o sn.calls \o
                                          <<StepEvent(d2.currentStep)>>])
  ELSE [d |-> d, o |-> o]

\* scheduler that first moves a cursor the clock has passed up to the clock
scheduler_resync(d, t) ==
  schedulerLoop([d EXCEPT !.nextNoteTime = Max(@, t)], t, Quiet)

\* scheduler written as a do-while loop: the first step is scheduled untested
scheduler_doWhile(d, t) ==
  LET sn == scheduleNote(d, d.currentStep, d.nextNoteTime)
  IN  IF sn.threw
      THEN [d |-> d, o |-> [Quiet EXCEPT !.threw = TRUE]]
      ELSE LET d2 == nextNote(d)
           IN  schedulerLoop(d2, t,
                 [Quiet EXCEPT !.log = sn.calls \o <<StepEvent(d2.currentStep)>>])

scheduler(d, t) == schedulerLoop(d, t, Quiet)

\* window.setInterval returns a handle no live timer has (a positive integer)
NewTimer(iv) == CHOOSE id \in 1..(Cardinality(iv) + 1) : id \notin iv

\* start without this.currentStep = 0
start_keepsStep(d, iv, t) ==
  IF d.timerId # NoTimer
  THEN [d |-> d, iv |-> iv, o |-> Quiet]
  ELSE LET r == scheduler([d EXCEPT !.nextNoteTime = t], t)
           id == NewTimer(iv)
       IN  IF r.o.threw
           THEN [d |-> r.d, iv |-> iv, o |-> r.o]
           ELSE [d |-> [r.d EXCEPT !.timerId = id], iv |-> iv \cup {id}, o |-> r.o]

\* start without its first line, if (this.timerId) return
start_unguarded(d, iv, t) ==
  LET r == scheduler([d EXCEPT !.currentStep = 0, !.nextNoteTime = t], t)
      id == NewTimer(iv)
  IN  IF r.o.threw
      THEN [d |-> r.d, iv |-> iv, o |-> r.o]
      ELSE [d |-> [r.d EXCEPT !.timerId = id], iv |-> iv \cup {id}, o |-> r.o]

start(d, iv, t) ==
  IF d.timerId # NoTimer
  THEN [d |-> d, iv |-> iv, o |-> Quiet]
  ELSE LET r == scheduler([d EXCEPT !.currentStep = 0, !.nextNoteTime = t], t)
           id == NewTimer(iv)
       IN  IF r.o.threw
           THEN [d |-> r.d, iv |-> iv, o |-> r.o]
           ELSE [d |-> [r.d EXCEPT !.timerId = id], iv |-> iv \cup {id}, o |-> r.o]

\* stop that also rewinds the step index
stop_rewinds(d, iv) ==
  IF d.timerId # NoTimer
  THEN [d |-> [d EXCEPT !.timerId = NoTimer, !.currentStep = 0],
        iv |-> iv \ {d.timerId}, o |-> Quiet]
  ELSE [d |-> d, iv |-> iv, o |-> Quiet]

\* stop without clearInterval(this.timerId)
stop_keepsTimer(d, iv) ==
  [d |-> [d EXCEPT !.timerId = NoTimer], iv |-> iv, o |-> Quiet]

stop(d, iv) ==
  IF d.timerId # NoTimer
  THEN [d |-> [d EXCEPT !.timerId = NoTimer], iv |-> iv \ {d.timerId}, o |-> Quiet]
  ELSE [d |-> d, iv |-> iv, o |-> Quiet]

\* setTempo that also re-times the pending step to the new interval
setTempo_retimes(d, newTempo) ==
  [d EXCEPT !.tempo = newTempo,
            !.nextNoteTime = @ - StepInterval(d.tempo) + StepInterval(newTempo)]

setTempo(d, newTempo) == [d EXCEPT !.tempo = newTempo]

\* setKit that also rewinds the sequencer
setKit_rewinds(d, kitName) == [d EXCEPT !.selectedKit = kitName, !.currentStep = 0]

setKit(d, kitName) == [d EXCEPT !.selectedKit = kitName]

\* updatePattern that leaves the scheduler's sequence as it was
updatePattern_deferred(d, instrument, pattern) == d

updatePattern(d, instrument, pattern) == [d EXCEPT !.patterns[instrument] = pattern]

\* DrumMachine.setLoopLength is called by MusicStudio and is not defined by the
\* DrumMachine of src/utils/AudioAnalyser.ts; it records the loop length
setLoopLength(d, n) == [d EXCEPT !.loopLength = n]

\* DrumMachine.setVolume is called by MusicStudio and is not defined by the
\* DrumMachine of src/utils/AudioAnalyser.ts; it records the output gain
\* (in hundredths, the step of the volume slider)
setVolume(d, gain) == [d EXCEPT !.volume = gain]

----------------------------------------------------------------------------
(* The recipes.  Each creates its own source node (an oscillator or a      *)
(* looping noise buffer) with its own filter and gain nodes, connects them *)
(* to the destination and schedules the source's start at the fire time    *)
(* and its stop duration milliseconds later.  A recipe runs on a state s:  *)
(* s.graph, the set of voices scheduled at the destination, and s.d, the   *)
(* DrumMachine it is a method of.                                          *)

ElectronicKit ==
  [kick   |-> [fn |-> "playElectronicKick",   source |-> "oscillator", duration |-> 100],
   snare  |-> [fn |-> "playElectronicSnare",  source |-> "noise",      duration |-> 200],
   hat    |-> [fn |-> "playElectronicHat",    source |-> "noise",      duration |-> 50],
   clap   |-> [fn |-> "playElectronicClap",   source |-> "noise",      duration |-> 150],
   tom    |-> [fn |-> "playElectronicTom",    source |-> "oscillator", duration |-> 250],
   cymbal |-> [fn |-> "playElectronicCymbal", source |-> "noise",      duration |-> 400]]

\* play808Clap, play808Tom and play808Cymbal call the Electronic recipes
Kit808 ==
  [ElectronicKit EXCEPT
     !.kick  = [fn |-> "play808Kick",  source |-> "oscillator", duration |-> 400],
     !.snare = [fn |-> "play808Snare", source |-> "noise",      duration |-> 150],
     !.hat   = [fn |-> "play808Hat",   source |-> "noise",      duration |-> 30]]

\* playAcousticClap and playAcousticTom call the Electronic recipes
AcousticKit ==
  [ElectronicKit EXCEPT
     !.kick   = [fn |-> "playAcousticKick",   source |-> "oscillator", duration |-> 150],
     !.snare  = [fn |-> "playAcousticSnare",  source |-> "noise",      duration |-> 120],
     !.hat    = [fn |-> "playAcousticHat",    source |-> "noise",      duration |-> 40],
     !.cymbal = [fn |-> "playAcousticCymbal", source |-> "noise",      duration |-> 500]]

\* this.kits[kitName]
KitTable(kitName) ==
  CASE kitName = "Electronic" -> ElectronicKit
    [] kitName = "808"        -> Kit808
    [] kitName = "Acoustic"   -> AcousticKit

\* the voice the recipe invoked by call schedules
Voice(call) ==
  LET r == KitTable(call.kit)[call.instrument]
  IN  [fn |-> r.fn, source |-> r.source, start |-> call.time, duration |-> r.duration]

\* recipes sharing one noise source node: a source node starts once, so a
\* second noise recipe's start() raises and schedules nothing
playRecipe_sharedNoise(s, call) ==
  IF /\ Voice(call).source = "noise"
     /\ \E v \in s.graph : v.source = "noise"
  THEN s
  ELSE [s EXCEPT !.graph = @ \cup {Voice(call)}]

\* kit.<instrument>(time)
playRecipe(s, call) == [s EXCEPT !.graph = @ \cup {Voice(call)}]

\* the recipes of calls, invoked one after the other
RECURSIVE PlayAll(_, _)
PlayAll(s, calls) ==
  IF calls = <<>> THEN s ELSE PlayAll(playRecipe(s, Head(calls)), Tail(calls))

----------------------------------------------------------------------------
(* AudioAnalyser, the level meter.  meter.callbacks is the set of handles   *)
(* of the frame callbacks requested with requestAnimationFrame and neither *)
(* run nor cancelled yet; meter.events is the sequence of details of the   *)
(* 'audio-level-changed' events the last step dispatched and meter.op the  *)
(* step's kind ("start", "stop", "frame" or "none").  A level is kept as   *)
(* the fraction num / den.                                                 *)

\* this.dataArray.reduce((acc, val) => acc + val, 0)
RECURSIVE SumOf(_)
SumOf(data) == IF data = <<>> THEN 0 ELSE data[1] + SumOf(Tail(data))

\* (sum / this.dataArray.length) / 128.0
Level(data) == [num |-> SumOf(data), den |-> Len(data) * LevelDivisor]

\* requestAnimationFrame returns a handle no pending callback has
NewFrameId(pending) == CHOOSE id \in 1..(Cardinality(pending) + 1) : id \notin pending

meterStart(m) ==
  LET id == NewFrameId(m.callbacks)
  IN  [m EXCEPT !.rafId = id, !.callbacks = @ \cup {id}]

meterStop(m) ==
  IF m.rafId # NoFrame
  THEN [m EXCEPT !.callbacks = @ \ {m.rafId}, !.rafId = NoFrame]
  ELSE m

\* tick requesting two frames instead of one
tick_requestsTwice(m, data) ==
  LET id == NewFrameId(m.callbacks)
      id2 == NewFrameId(m.callbacks \cup {id})
  IN  [m EXCEPT !.dataArray = data,
                !.events = Append(@, Level(data)),
                !.rafId = id2,
                !.callbacks = @ \cup {id, id2}]

\* tick(), with data what getByteFrequencyData writes into dataArray
tick(m, data) ==
  LET id == NewFrameId(m.callbacks)
  IN  [m EXCEPT !.dataArray = data,
                !.events = Append(@, Level(data)),
                !.rafId = id,
                !.callbacks = @ \cup {id}]

\* one animation frame: the browser runs the callbacks of todo, those pending
\* when the frame began; a callback requested during the frame waits for the
\* next one
RECURSIVE runCallbacks(_, _, _)
runCallbacks(m, todo, data) ==
  IF todo = {}
  THEN m
  ELSE LET cb == CHOOSE c \in todo : \A other \in todo : c <= other
       IN  runCallbacks(tick([m EXCEPT !.callbacks = @ \ {cb}], data),
                        todo \ {cb}, data)

----------------------------------------------------------------------------
(* MusicStudio *)

\* the 'step' listener the constructor registers, run for each event of o
\* the 'prompts-changed' event of dispatchPromptsChanged: every prompt's text
\* ends in "at <launchpadTempo> BPM"
PromptsChanged(u) == [kind |-> "prompts-changed", tempo |-> u.launchpadTempo]

IsPromptsChanged(e) == e.kind = "prompts-changed"

\* updateLaunchpadTempo that also sets the DrumMachine's tempo
updateLaunchpadTempo_shared(u, d, newTempo) ==
  LET u2 == [u EXCEPT !.launchpadTempo = Max(60, Min(180, newTempo))]
  IN  [u |-> u2, d |-> setTempo(d, u2.launchpadTempo),
       o |-> [Quiet EXCEPT !.log = <<PromptsChanged(u2)>>]]

\* updateLaunchpadTempo, with updateMusicalContext and dispatchPromptsChanged
updateLaunchpadTempo(u, d, newTempo) ==
  LET u2 == [u EXCEPT !.launchpadTempo = Max(60, Min(180, newTempo))]
  IN  [u |-> u2, d |-> d, o |-> [Quiet EXCEPT !.log = <<PromptsChanged(u2)>>]]

\* handleBeatmakerVolumeChange that does not relay the value to the DrumMachine
handleBeatmakerVolumeChange_uiOnly(u, d, newVolume) ==
  [u |-> [u EXCEPT !.beatmakerVolume = newVolume], d |-> d]

handleBeatmakerVolumeChange(u, d, newVolume) ==
  [u |-> [u EXCEPT !.beatmakerVolume = newVolume], d |-> setVolume(d, newVolume)]

StepListener(u, o) ==
  IF Events(o) = <<>> THEN u ELSE [u EXCEPT !.currentStep = Last(Events(o)).step]

\* updateBeatmakerTempo without Math.max(60, Math.min(180, newTempo))
updateBeatmakerTempo_unclamped(u, d, newTempo) ==
  [u |-> [u EXCEPT !.beatmakerTempo = newTempo], d |-> setTempo(d, newTempo)]

updateBeatmakerTempo(u, d, newTempo) ==
  LET u2 == [u EXCEPT !.beatmakerTempo = Max(60, Min(180, newTempo))]
  IN  [u |-> u2, d |-> setTempo(d, u2.beatmakerTempo)]

handleKitChange(u, d, newKit) ==
  [u |-> [u EXCEPT !.selectedKit = newKit], d |-> setKit(d, newKit)]

\* toggleStep without the call of drumMachine.updatePattern
toggleStep_noRelay(u, d, instrument, stepIndex) ==
  LET newPattern == SetAt(u.patterns[instrument], stepIndex,
                          ~At(u.patterns[instrument], stepIndex))
  IN  [u |-> [u EXCEPT !.patterns[instrument] = newPattern], d |-> d]

toggleStep(u, d, instrument, stepIndex) ==
  LET newPattern == SetAt(u.patterns[instrument], stepIndex,
                          ~At(u.patterns[instrument], stepIndex))
  IN  [u |-> [u EXCEPT !.patterns[instrument] = newPattern],
       d |-> updatePattern(d, instrument, newPattern)]

\* the loop body without the copy loop
Resized_noCopy(oldPattern, oldLength, newLength) == ArrayFill(newLength)

\* the loop body with copyLength = oldLength: writes past newLength lengthen
\* the new array
Resized_copiesAll(oldPattern, oldLength, newLength) ==
  [k \in 1..Max(oldLength, newLength) |->
     IF k - 1 < oldLength THEN At(oldPattern, k - 1) ELSE FALSE]

\* the body of the for loop of handleSequencerLengthChange for one instrument
Resized(oldPattern, oldLength, newLength) ==
  [k \in 1..newLength |->
     IF k - 1 < Min(oldLength, newLength) THEN At(oldPattern, k - 1) ELSE FALSE]

handleSequencerLengthChange(u, d, newLength) ==
  IF newLength = u.sequencerLength
  THEN [u |-> u, d |-> d]
  ELSE LET newPatterns == [i \in Instrument |->
                             Resized(u.patterns[i], u.sequencerLength, newLength)]
       IN  [u |-> [u EXCEPT !.sequencerLength = newLength, !.patterns = newPatterns],
            d |-> [setLoopLength(d, newLength) EXCEPT !.patterns = newPatterns]]

\* clearAllPatterns without this.drumMachine.updatePattern(...)
clearAllPatterns_uiOnly(u, d) ==
  [u |-> [u EXCEPT !.patterns = [i \in Instrument |-> ArrayFill(u.sequencerLength)]],
   d |-> d]

clearAllPatterns(u, d) ==
  LET newPatterns == [i \in Instrument |-> ArrayFill(u.sequencerLength)]
  IN  [u |-> [u EXCEPT !.patterns = newPatterns],
       d |-> [d EXCEPT !.patterns = newPatterns]]

\* handleGeneratePattern reading fullPattern[i + 1] for newPattern[i]
handleGeneratePattern_shifted(u, d, b) ==
  LET newPatterns == [i \in Instrument |->
                        [k \in 1..u.sequencerLength |-> At(PREMADE_BEATS[b][i], k)]]
  IN  [u |-> [u EXCEPT !.patterns = newPatterns],
       d |-> [d EXCEPT !.patterns = newPatterns]]

\* handleGeneratePattern installing each fullPattern whole
handleGeneratePattern_full(u, d, b) ==
  LET newPatterns == [i \in Instrument |-> PREMADE_BEATS[b][i]]
  IN  [u |-> [u EXCEPT !.patterns = newPatterns],
       d |-> [d EXCEPT !.patterns = newPatterns]]

\* randomBeat is PREMADE_BEATS[b]; every beat has all six instruments
handleGeneratePattern(u, d, b) ==
  LET newPatterns == [i \in Instrument |->
                        [k \in 1..u.sequencerLength |-> At(PREMADE_BEATS[b][i], k - 1)]]
  IN  [u |-> [u EXCEPT !.patterns = newPatterns],
       d |-> [d EXCEPT !.patterns = newPatterns]]

toggleBeatmakerPlayback(u, d, iv, t) ==
  LET u2 == [u EXCEPT !.beatmakerIsPlaying = ~@]
  IN  IF u2.beatmakerIsPlaying
      THEN LET r == start(d, iv, t)
           IN  [u |-> StepListener(u2, r.o), d |-> r.d, iv |-> r.iv, o |-> r.o]
      ELSE LET r == stop(d, iv)
           IN  [u |-> [u2 EXCEPT !.currentStep = -1], d |-> r.d, iv |-> r.iv, o |-> r.o]

----------------------------------------------------------------------------
(* LaunchpadButton.  pad.events is the sequence of details of the          *)
(* 'prompt-changed' events the last step dispatched (the weight and the cc *)
(* of the detail; promptId, text and color never change), pad.op the       *)
(* step's kind and pad.msg the detail of the last 'cc-message' delivered.  *)

dispatchPromptChange(p) ==
  [p EXCEPT !.events = Append(@, [weight |-> p.weight, cc |-> p.cc])]

toggleWeight(p) ==
  dispatchPromptChange([p EXCEPT !.weight = IF @ > 0 THEN 0 ELSE 1])

\* the listener with "if" where the code has "else if"
ccMessage_noElse(p, m) ==
  LET p2 == IF p.learnMode
            THEN dispatchPromptChange([p EXCEPT !.cc = m.cc, !.channel = m.channel,
                                                !.learnMode = FALSE])
            ELSE p
  IN  IF m.cc = p2.cc /\ m.value > 0 THEN toggleWeight(p2) ELSE p2

\* the 'cc-message' listener of connectedCallback, given the event's detail
ccMessage(p, m) ==
  IF p.learnMode
  THEN dispatchPromptChange([p EXCEPT !.cc = m.cc, !.channel = m.channel,
                                      !.learnMode = FALSE])
  ELSE IF m.cc = p.cc /\ m.value > 0
       THEN toggleWeight(p)
       ELSE p

toggleLearnMode(p) == [p EXCEPT !.learnMode = ~@]

\* update that leaves learnMode alone
setShowCC_noReset(p, value) == [p EXCEPT !.showCC = value]

\* the parent sets the showCC property and the element updates:
\* changedProperties has 'showCC' when the value differs from the old one
setShowCC(p, value) ==
  LET p2 == [p EXCEPT !.showCC = value]
  IN  IF value # p.showCC /\ ~p2.showCC
      THEN [p2 EXCEPT !.learnMode = FALSE]
      ELSE p2

----------------------------------------------------------------------------
(* The state after new MusicStudio(...) *)

Init ==
  /\ dm = [tempo |-> 120, nextNoteTime |-> 0, currentStep |-> 0, timerId |-> NoTimer,
           patterns |-> [i \in Instrument |-> ArrayFill(8)],
           selectedKit |-> "Electronic", loopLength |-> 8, volume |-> 100]
  /\ ui = [beatmakerIsPlaying |-> FALSE, beatmakerTempo |-> 120, currentStep |-> -1,
           sequencerLength |-> 8, patterns |-> [i \in Instrument |-> ArrayFill(8)],
           selectedKit |-> "Electronic", beatmakerVolume |-> 100,
           launchpadTempo |-> 120]
  /\ now = 0
  /\ intervals = {}
  /\ out = Quiet
  /\ meter = [rafId |-> NoFrame, callbacks |-> {}, dataArray |-> [i \in 1..MeterBins |-> 0],
              events |-> <<>>, op |-> "none"]
  /\ pad = [cc |-> 0, channel |-> 0, weight |-> 0, learnMode |-> FALSE,
            showCC |-> FALSE, events |-> <<>>, op |-> "none",
            msg |-> [channel |-> 0, cc |-> 0, value |-> 0]]

----------------------------------------------------------------------------
(* Actions.  Each binds the result of the handler it runs once, with     *)
(* \E r \in {...}, and out' records what the handler did to the transport. *)

(* The user's gestures on the beatmaker *)

ToggleBeatmakerPlayback ==
  \E r \in {toggleBeatmakerPlayback(ui, dm, intervals, now)} :
    /\ ui' = r.u /\ dm' = r.d /\ intervals' = r.iv
    /\ out' = [r.o EXCEPT !.op = IF ui.beatmakerIsPlaying THEN "stop" ELSE "start"]
    /\ UNCHANGED <<now, meter, pad>>

HandleBeatmakerTempoChange ==
  \E newTempo \in TempoInputs :
    \E r \in {updateBeatmakerTempo(ui, dm, newTempo)} :
      /\ ui' = r.u /\ dm' = r.d /\ out' = Quiet
      /\ UNCHANGED <<now, intervals, meter, pad>>

HandleBeatmakerVolumeChange ==
  \E newVolume \in VolumeInputs :
    \E r \in {handleBeatmakerVolumeChange(ui, dm, newVolume)} :
      /\ ui' = r.u /\ dm' = r.d /\ out' = [Quiet EXCEPT !.op = "volume"]
      /\ UNCHANGED <<now, intervals, meter, pad>>

HandleLaunchpadTempoChange ==
  \E newTempo \in LaunchpadTempoInputs :
    \E r \in {updateLaunchpadTempo(ui, dm, newTempo)} :
      /\ ui' = r.u /\ dm' = r.d /\ out' = [r.o EXCEPT !.op = "launchpadTempo"]
      /\ UNCHANGED <<now, intervals, meter, pad>>

HandleKitChange ==
  \E newKit \in KitInputs :
    \E r \in {handleKitChange(ui, dm, newKit)} :
      /\ ui' = r.u /\ dm' = r.d /\ out' = Quiet
      /\ UNCHANGED <<now, intervals, meter, pad>>

ToggleStep ==
  \E instrument \in ToggleInstruments, stepIndex \in ToggleSteps :
    \E r \in {toggleStep(ui, dm, instrument, stepIndex)} :
      /\ ui' = r.u /\ dm' = r.d /\ out' = Quiet
      /\ UNCHANGED <<now, intervals, meter, pad>>

HandleSequencerLengthChange ==
  \E newLength \in LengthInputs :
    \E r \in {handleSequencerLengthChange(ui, dm, newLength)} :
      /\ ui' = r.u /\ dm' = r.d /\ out' = Quiet
      /\ UNCHANGED <<now, intervals, meter, pad>>

ClearAllPatterns ==
  \E r \in {clearAllPatterns(ui, dm)} :
    /\ ui' = r.u /\ dm' = r.d /\ out' = Quiet
    /\ UNCHANGED <<now, intervals, meter, pad>>

HandleGeneratePattern ==
  \E b \in PresetInputs :
    \E r \in {handleGeneratePattern(ui, dm, b)} :
      /\ ui' = r.u /\ dm' = r.d /\ out' = Quiet
      /\ UNCHANGED <<now, intervals, meter, pad>>

(* The same gestures with the inputs of the grid-only runs.  The grid      *)
(* renders one cell per element of this.patterns[instrument], so a click   *)
(* passes an index below the row's length.                                 *)

GridToggleStep ==
  \E instrument \in GridInstruments, stepIndex \in GridSteps :
    /\ stepIndex < Len(ui.patterns[instrument])
    /\ \E r \in {toggleStep(ui, dm, instrument, stepIndex)} :
         /\ ui' = r.u /\ dm' = r.d /\ out' = Quiet
         /\ UNCHANGED <<now, intervals, meter, pad>>

GridSequencerLengthChange ==
  \E newLength \in GridLengths :
    \E r \in {handleSequencerLengthChange(ui, dm, newLength)} :
      /\ ui' = r.u /\ dm' = r.d /\ out' = Quiet
      /\ UNCHANGED <<now, intervals, meter, pad>>

GridGeneratePattern ==
  \E b \in GridPresets :
    \E r \in {handleGeneratePattern(ui, dm, b)} :
      /\ ui' = r.u /\ dm' = r.d /\ out' = Quiet
      /\ UNCHANGED <<now, intervals, meter, pad>>

\* toggleStep called with whatever index its caller passes
ToggleAnyStep ==
  \E instrument \in GridInstruments, stepIndex \in StoreSteps :
    \E r \in {toggleStep(ui, dm, instrument, stepIndex)} :
      /\ ui' = r.u /\ dm' = r.d /\ out' = Quiet
      /\ UNCHANGED <<now, intervals, meter, pad>>

(* The environment *)

\* a live interval timer runs its callback, () => this.scheduler(); an
\* exception that leaves the callback is reported and the timer stays live
Poll ==
  /\ intervals # {}
  /\ \E r \in {scheduler(dm, now)} :
       /\ dm' = r.d /\ ui' = StepListener(ui, r.o)
       /\ out' = [r.o EXCEPT !.op = "poll"]
  /\ UNCHANGED <<now, intervals, meter, pad>>

\* the audio clock advances by one timer period
Tick ==
  /\ now + lookahead <= MaxTime
  /\ now' = now + lookahead
  /\ out' = Quiet
  /\ UNCHANGED <<dm, ui, intervals, meter, pad>>

\* the timer's callbacks are held back (a throttled or busy page) while the
\* audio clock runs on
LongTick ==
  /\ now + LongDelay <= LongMaxTime
  /\ now' = now + LongDelay
  /\ out' = Quiet
  /\ UNCHANGED <<dm, ui, intervals, meter, pad>>

(* A launchpad button: MIDI messages and the user's gestures *)

CcMessage ==
  /\ \E m \in ControlChanges :
       pad' = [ccMessage([pad EXCEPT !.events = <<>>], m) EXCEPT !.op = "cc", !.msg = m]
  /\ UNCHANGED <<dm, ui, now, intervals, out, meter>>

PadClick ==
  /\ pad' = [toggleWeight([pad EXCEPT !.events = <<>>]) EXCEPT !.op = "click"]
  /\ UNCHANGED <<dm, ui, now, intervals, out, meter>>

\* a click on the CC label, which is visible while showCC is set
ToggleLearnMode ==
  /\ pad.showCC
  /\ pad' = [toggleLearnMode([pad EXCEPT !.events = <<>>]) EXCEPT !.op = "learn"]
  /\ UNCHANGED <<dm, ui, now, intervals, out, meter>>

\* the "Show MIDI CC" checkbox of MusicStudio
SetShowCC ==
  /\ \E value \in BOOLEAN :
       pad' = [setShowCC([pad EXCEPT !.events = <<>>], value) EXCEPT !.op = "showCC"]
  /\ UNCHANGED <<dm, ui, now, intervals, out, meter>>

PadNext ==
  \/ CcMessage
  \/ PadClick
  \/ ToggleLearnMode
  \/ SetShowCC

(* The level meter: its caller and the browser's animation frames *)

MeterStart ==
  /\ Cardinality(meter.callbacks) < MaxCallbacks
  /\ meter' = [meterStart(meter) EXCEPT !.events = <<>>, !.op = "start"]
  /\ UNCHANGED <<dm, ui, now, intervals, out, pad>>

MeterStop ==
  /\ meter' = [meterStop(meter) EXCEPT !.events = <<>>, !.op = "stop"]
  /\ UNCHANGED <<dm, ui, now, intervals, out, pad>>

\* an animation frame in which the analyser's frequency data is data
Frame ==
  /\ meter.callbacks # {}
  /\ \E data \in DataArrays :
       meter' = [runCallbacks([meter EXCEPT !.events = <<>>], meter.callbacks, data)
                   EXCEPT !.op = "frame"]
  /\ UNCHANGED <<dm, ui, now, intervals, out, pad>>

MeterNext ==
  \/ MeterStart
  \/ MeterStop
  \/ Frame

(* A caller of the DrumMachine's start() and stop() *)

Start ==
  \E r \in {start(dm, intervals, now)} :
    /\ dm' = r.d /\ intervals' = r.iv /\ ui' = StepListener(ui, r.o)
    /\ out' = [r.o EXCEPT !.op = "start"]
    /\ UNCHANGED <<now, meter, pad>>

Stop ==
  \E r \in {stop(dm, intervals)} :
    /\ dm' = r.d /\ intervals' = r.iv
    /\ out' = [r.o EXCEPT !.op = "stop"]
    /\ UNCHANGED <<now, ui, meter, pad>>

Next ==
  \/ Start
  \/ Stop
  \/ Poll
  \/ Tick
  \/ HandleBeatmakerTempoChange
  \/ HandleKitChange
  \/ ToggleStep
  \/ HandleSequencerLengthChange
  \/ ClearAllPatterns
  \/ HandleGeneratePattern

UINext ==
  \/ ToggleBeatmakerPlayback
  \/ Poll
  \/ Tick
  \/ HandleBeatmakerTempoChange
  \/ HandleKitChange
  \/ ToggleStep
  \/ HandleSequencerLengthChange
  \/ ClearAllPatterns
  \/ HandleGeneratePattern

\* the tempo slider moved while the machine is stopped
TempoChangeWhileStopped ==
  /\ dm.timerId = NoTimer
  /\ HandleBeatmakerTempoChange

SteadyNext ==
  \/ Start
  \/ Stop
  \/ Poll
  \/ Tick
  \/ TempoChangeWhileStopped
  \/ HandleGeneratePattern

GridNext ==
  \/ GridToggleStep
  \/ GridSequencerLengthChange
  \/ GridGeneratePattern
  \/ ClearAllPatterns

StoreNext ==
  \/ ToggleAnyStep
  \/ GridSequencerLengthChange
  \/ GridGeneratePattern
  \/ ClearAllPatterns

\* a beat played through the UI over a whole bar and more, with late polls
LongRunNext ==
  \/ ToggleBeatmakerPlayback
  \/ Poll
  \/ LongTick
  \/ GridSequencerLengthChange
  \/ HandleGeneratePattern

\* the beatmaker's transport and its sliders, next to the launchpad's tempo
ControlNext ==
  \/ ToggleBeatmakerPlayback
  \/ Poll
  \/ Tick
  \/ ToggleStep
  \/ HandleKitChange
  \/ HandleBeatmakerTempoChange
  \/ HandleBeatmakerVolumeChange
  \/ HandleLaunchpadTempoChange

\* the DrumMachine under a caller of start() and stop(), edited through MusicStudio
Spec == Init /\ [][Next]_vars

\* runs at a constant tempo: the tempo changes only between runs
SteadySpec == Init /\ [][SteadyNext]_vars

\* the pattern grid being edited while the machine is stopped
GridSpec == Init /\ [][GridNext]_vars

\* the pattern operations under a caller that passes any step index
StoreSpec == Init /\ [][StoreNext]_vars

\* the beatmaker playing for more than a bar
LongRunSpec == Init /\ [][LongRunNext]_vars

\* a launchpad button under MIDI messages, clicks and the CC display switch
PadSpec == Init /\ [][PadNext]_vars

\* the controls of MusicStudio around a playing beat
ControlSpec == Init /\ [][ControlNext]_vars

\* the level meter under a caller of its start() and stop()
MeterSpec == Init /\ [][MeterNext]_vars

\* the beatmaker as MusicStudio drives it: the play button is the only caller
UISpec == Init /\ [][UINext]_vars

----------------------------------------------------------------------------
(* The loop length the user has set, the one the grid shows *)
LoopLength == ui.sequencerLength

\* the positions, in the log of one operation, of the recipe calls of the step
\* that the k-th entry (a 'step' event) closes: the calls since the event before
StepCallsAt(log, k) ==
  {j \in 1..(k - 1) : /\ IsRecipe(log[j])
                      /\ \A m \in (j + 1)..(k - 1) : IsRecipe(log[m])}

\* the instruments invoked for that step
StepCalls(log, k) == {log[j].instrument : j \in StepCallsAt(log, k)}

Flagged(d, index) == {i \in Instrument : At(d.patterns[i], index)}

----------------------------------------------------------------------------
(* C1 (as claimed): in every reachable state the current step index is in  *)
(* [0, loopLength), and so is the payload of every step-changed event.     *)
C1_StepIndexInLoop ==
  /\ dm.currentStep \in 0..(LoopLength - 1)
  /\ \A k \in 1..Len(out.log) :
       IsStep(out.log[k]) => out.log[k].step \in 0..(LoopLength - 1)

(* C2 (as claimed): playback walks the loop of length n cycle after cycle,  *)
(* so that over k cycles each instrument is invoked k times per true flag: *)
(* the a-th step since start() (a = 0, 1, ...) invokes exactly the         *)
(* instruments whose flag at a mod n is true, each at step index a mod n.  *)
C2_InvocationsFollowFlags ==
  \A k \in 1..Len(out.log) :
    IsStep(out.log[k]) =>
      LET a == (out.log[k].step + StepModulus - 1) % StepModulus
      IN  /\ StepCalls(out.log, k) = Flagged(dm, a % LoopLength)
          /\ \A j \in StepCallsAt(out.log, k) : out.log[j].step = a % LoopLength

(* C3 (as claimed): for every tempo in [60,180], start() followed at once   *)
(* by stop() emits at most one step-changed event and leaves every         *)
(* instrument sequence unchanged.                                          *)
C3_StartStopOneEvent ==
  [][(out.op = "start" /\ out'.op = "stop" /\ dm.tempo \in 60..180) =>
       /\ Len(Events(out)) + Len(Events(out')) <= 1
       /\ dm'.patterns = dm.patterns /\ ui'.patterns = ui.patterns]_vars

(* C3 (amended): start() followed at once by stop() emits at most one       *)
(* step-changed event when the tempo is in [60,150] and at most two when   *)
(* it is in (150,180]; neither start() nor stop() changes an instrument    *)
(* sequence.                                                               *)
C3_StartStopEventsByTempo ==
  [][/\ (out.op = "start" /\ out'.op = "stop") =>
          /\ dm.tempo \in 60..150 => Len(Events(out)) + Len(Events(out')) <= 1
          /\ dm.tempo \in 151..180 => Len(Events(out)) + Len(Events(out')) <= 2
     /\ out'.op \in {"start", "stop"} =>
          dm'.patterns = dm.patterns /\ ui'.patterns = ui.patterns]_vars

\* stop() has just followed start() with no clock advance in between, at a
\* tempo above 150: the two steps start() scheduled are what the state shows
C3_Witness ==
  /\ out.op = "stop" /\ dm.timerId = NoTimer
  /\ dm.tempo = 180 /\ dm.currentStep = 2
  /\ dm.nextNoteTime = now + 2 * StepInterval(dm.tempo)

(* C4 (as claimed): an exception raised while a recipe is invoked does not  *)
(* leave the poll (nor start()'s first poll): the poll completes, with the  *)
(* fire-time cursor advanced past the look-ahead window.                   *)
C4_PollNeverThrows ==
  /\ out.op \in {"poll", "start"} => ~out.threw
  /\ out.op = "poll" => dm.nextNoteTime >= now + scheduleAheadTime

(* C5 (as claimed): setKit rejects a name that is no defined kit, so the    *)
(* selected kit is a key of the kit table in every reachable state.        *)
C5_SelectedKitDefined == dm.selectedKit \in kits

(* C6 (as claimed): every kit the beatmaker offers resolves in the drum     *)
(* machine to a recipe per instrument, so that scheduling any step of the  *)
(* pattern with the kit the user selected raises nothing.                  *)
C6_OfferedKitsPlay ==
  ui.selectedKit \in KITS =>
    \A beatNumber \in 0..(StepModulus - 1) :
      ~scheduleNote(dm, beatNumber, dm.nextNoteTime).threw

(* C7 (as claimed, in the form a finite run refutes): a poll that finds a   *)
(* step due (cursor inside the look-ahead window) emits a step-changed     *)
(* event, whether or not the step's sound emission succeeds.               *)
C7_DuePollEmitsStep ==
  [][(out'.op = "poll" /\ dm.nextNoteTime < now + scheduleAheadTime) =>
       Events(out') # <<>>]_vars

(* C8: start() while running and stop() while stopped change nothing (no    *)
(* field of the machine, no timer, no recipe invoked, no event emitted),   *)
(* and at most one poll timer is live at any time.                         *)
C8_StartStopIdempotent ==
  [][/\ (out'.op = "start" /\ dm.timerId # NoTimer) =>
          /\ dm' = dm /\ intervals' = intervals /\ ui' = ui
          /\ out'.log = <<>> /\ ~out'.threw
     /\ (out'.op = "stop" /\ dm.timerId = NoTimer) =>
          /\ dm' = dm /\ intervals' = intervals /\ ui' = ui
          /\ out'.log = <<>> /\ ~out'.threw
     /\ Cardinality(intervals') <= 1]_vars

\* start() has just returned having scheduled nothing and raised nothing, which
\* only a start() on a running machine does
C8_Witness ==
  /\ out.op = "start" /\ out.log = <<>> /\ ~out.threw
  /\ dm.timerId # NoTimer /\ dm.currentStep > 0

(* C9: while the machine is stopped, no step other than a start() emits a   *)
(* step-changed event or invokes a recipe, and the UI's current-step       *)
(* indicator is -1 whenever the play button shows stopped.                 *)
C9_SilentAfterStop ==
  [][/\ (dm.timerId = NoTimer /\ out'.op # "start") => out'.log = <<>>
     /\ ~ui'.beatmakerIsPlaying => ui'.currentStep = -1]_vars

\* playback was stopped, the clock has since passed the cursor, and the
\* indicator still shows -1
C9_Witness ==
  /\ dm.timerId = NoTimer /\ ~ui.beatmakerIsPlaying
  /\ dm.currentStep > 0 /\ dm.nextNoteTime < now
  /\ ui.currentStep = -1

(* C10 (as claimed): the next scheduled fire time never decreases.          *)
C10_CursorNeverDecreases ==
  [][dm'.nextNoteTime >= dm.nextNoteTime]_vars

(* C10 (amended): the next scheduled fire time never decreases across       *)
(* poll, setTempo, stop and pattern or kit edits; a start() from the       *)
(* stopped state sets it to the audio clock's current time, whatever       *)
(* (possibly later) time the previous run left.                            *)
C10_CursorMonotoneBetweenStarts ==
  [][/\ out'.op # "start" => dm'.nextNoteTime >= dm.nextNoteTime
     /\ (out'.op = "start" /\ dm.timerId = NoTimer) => dm'.nextNoteTime >= now]_vars

\* a poll has advanced the cursor after the tempo was changed
C10_Witness ==
  /\ out.op = "poll" /\ Events(out) # <<>>
  /\ dm.tempo # 120 /\ dm.currentStep > 2

(* C11: for each step the scheduler advances past, each instrument whose   *)
(* flag at that step index is true has its recipe of the selected kit      *)
(* invoked exactly once, no other recipe is invoked, and the fire time     *)
(* passed is the value the cursor had before that advance (the cursor on   *)
(* return less one interval per advance made since).                      *)
C11_OncePerActiveFlag ==
  \A k \in 1..Len(out.log) :
    IsStep(out.log[k]) =>
      LET index == (out.log[k].step + StepModulus - 1) % StepModulus
          since == Cardinality({m \in k..Len(out.log) : IsStep(out.log[m])})
          cursor == dm.nextNoteTime - since * StepInterval(dm.tempo)
      IN  /\ StepCalls(out.log, k) = Flagged(dm, index)
          /\ Cardinality(StepCallsAt(out.log, k)) = Cardinality(Flagged(dm, index))
          /\ \A j \in StepCallsAt(out.log, k) :
                /\ out.log[j].kit = dm.selectedKit
                /\ out.log[j].step = index
                /\ out.log[j].time = cursor

\* start() at tempo 180 has advanced past two steps, one with two active flags
\* and one with none
C11_Witness ==
  /\ out.op = "start" /\ Len(Events(out)) = 2
  /\ Len(Invoked(out)) = 2 /\ IsRecipe(out.log[1]) /\ IsRecipe(out.log[2])

(* C12: one step-changed event is emitted per advance (the step index and  *)
(* the cursor move by as many steps as events were emitted), the events of *)
(* an operation carry consecutive indices ending at the current one, and   *)
(* every recipe invocation is followed by the event of its own step, which *)
(* comes before any invocation of the next step.                           *)
C12_OneEventPerAdvance ==
  [][out'.op \in {"poll", "start"} =>
       LET log == out'.log
           n == Len(Events(out'))
           from == IF out'.op = "poll" \/ dm.timerId # NoTimer
                   THEN dm ELSE [dm EXCEPT !.currentStep = 0, !.nextNoteTime = now]
       IN  /\ dm'.currentStep = (from.currentStep + n) % StepModulus
           /\ dm'.nextNoteTime = from.nextNoteTime + n * StepInterval(dm.tempo)
           /\ \A i \in 1..n :
                 Events(out')[i].step = (from.currentStep + i) % StepModulus
           /\ \A j \in 1..Len(log) :
                 IsRecipe(log[j]) =>
                   \E k \in (j + 1)..Len(log) :
                     /\ IsStep(log[k])
                     /\ \A m \in j..(k - 1) : IsRecipe(log[m])
                     /\ log[k].step = (log[j].step + 1) % StepModulus]_vars

\* a poll has emitted an event after the invocations of its step, on a machine
\* that had already advanced
C12_Witness ==
  /\ out.op = "poll" /\ Len(out.log) >= 2
  /\ IsRecipe(out.log[1]) /\ IsStep(out.log[Len(out.log)])
  /\ dm.currentStep >= 3

(* C13: in every reachable state the transport's tempo is within [60,180]: *)
(* a request outside the range reaches the scheduler as the nearest bound, *)
(* the value the beatmaker shows.                                          *)
C13_TempoInRange ==
  /\ dm.tempo \in 60..180
  /\ dm.tempo = ui.beatmakerTempo

\* the tempo is 180 although no request asked for 180: a request above the
\* range was clamped, and the scheduler has advanced at that tempo
C13_Witness ==
  /\ dm.tempo = 180 /\ 180 \notin TempoInputs
  /\ out.op = "poll" /\ Events(out) # <<>>

(* C14: a tempo change leaves the cursor, the step index and the timer as *)
(* they are and invokes nothing (fire times already handed to recipes are  *)
(* not revisited); every advance made afterwards adds the interval of the  *)
(* tempo in force when it is made.                                         *)
C14_TempoChangeNotRetroactive ==
  [][/\ dm'.tempo # dm.tempo =>
          /\ dm'.nextNoteTime = dm.nextNoteTime
          /\ dm'.currentStep = dm.currentStep
          /\ dm'.timerId = dm.timerId /\ intervals' = intervals
          /\ out'.log = <<>>
     /\ out'.op = "poll" =>
          /\ dm'.tempo = dm.tempo
          /\ dm'.nextNoteTime - dm.nextNoteTime =
               ((dm'.currentStep - dm.currentStep + StepModulus) % StepModulus)
                 * StepInterval(dm.tempo)]_vars

\* the second step of a run was added at tempo 180 to a cursor whose first
\* step had been added at tempo 120: the tempo changed during playback
C14_Witness ==
  /\ out.op = "poll" /\ dm.timerId # NoTimer
  /\ dm.tempo = 180 /\ dm.currentStep = 2
  /\ dm.nextNoteTime = StepInterval(120) + StepInterval(180)

(* C15: in a run at constant tempo T the k-th step has fire time           *)
(* (clock at start) + k * (60/T) * 0.25, however the polls fall: start()   *)
(* leaves cursor - (step index) * interval, the origin of the run, at the  *)
(* clock's time; no step of a run, poll early or late included, moves the  *)
(* origin; and every fire time handed to a recipe is the origin plus its   *)
(* step's index times the interval.  (The step index is the count of steps *)
(* since start() for the first 16 steps of a run.)                         *)
C15_FireTimesOnTempoGrid ==
  [][LET I == StepInterval(dm'.tempo)
         origin == dm'.nextNoteTime - dm'.currentStep * I
     IN  /\ (out'.op = "start" /\ dm.timerId = NoTimer) => origin = now
         /\ (dm.timerId # NoTimer /\ dm'.timerId # NoTimer) =>
               origin = dm.nextNoteTime - dm.currentStep * StepInterval(dm.tempo)
         /\ \A j \in 1..Len(out'.log) :
               IsRecipe(out'.log[j]) =>
                 out'.log[j].time = origin + out'.log[j].step * I]_vars

\* a poll that came late has advanced two steps at once at tempo 120, handing
\* a recipe its fire time
C15_Witness ==
  /\ out.op = "poll" /\ dm.tempo = 120
  /\ Len(Events(out)) >= 2 /\ Invoked(out) # <<>>

(* C16: start() from the stopped state begins the run at step index 0 and  *)
(* at the audio clock's current time, whatever the previous run left: the  *)
(* first step it schedules is step 0 with fire time now, its first event   *)
(* carries 1, and on return the step index is the number of steps it       *)
(* advanced and the cursor is now plus that many intervals.                *)
C16_StartResets ==
  [][(out'.op = "start" /\ dm.timerId = NoTimer) =>
       LET log == out'.log
           n == Len(Events(out'))
       IN  /\ dm'.currentStep = n
           /\ dm'.nextNoteTime = now + n * StepInterval(dm.tempo)
           /\ n > 0 => Events(out')[1].step = 1
           /\ \A j \in 1..Len(log) :
                 (\A m \in 1..j : IsRecipe(log[m])) =>
                   log[j].step = 0 /\ log[j].time = now]_vars

\* start() has begun a run at a clock time later than 0, scheduling step 0 of
\* a pattern with an active flag there
C16_Witness ==
  /\ out.op = "start" /\ dm.timerId # NoTimer /\ now > 0
  /\ out.log # <<>>
  /\ IsRecipe(out.log[1]) /\ out.log[1].step = 0 /\ out.log[1].time = now
  /\ dm.currentStep = Len(Events(out))

(* C17: stop() leaves the transport's step index as it is, and while the   *)
(* machine is stopped nothing but a start() changes it.                    *)
C17_StopKeepsStepIndex ==
  [][/\ out'.op = "stop" => dm'.currentStep = dm.currentStep
     /\ (dm.timerId = NoTimer /\ out'.op # "start") =>
          dm'.currentStep = dm.currentStep]_vars

\* the machine was stopped at step index 2 or later and still shows it after
\* the clock has passed the step that was next
C17_Witness ==
  /\ dm.timerId = NoTimer /\ intervals = {}
  /\ dm.currentStep >= 2 /\ now > dm.nextNoteTime
  /\ out.op = "none"

(* C18: after any sequence of step toggles, clears, preset loads and       *)
(* loop-length changes, all six instrument sequences have the length the   *)
(* last loop-length change asked for (8 before any), in the UI's pattern   *)
(* state and in the scheduler's, and the two hold the same flags.          *)
C18_SequencesShareLoopLength ==
  /\ ui.sequencerLength \in {4, 8, 16}
  /\ \A i \in Instrument :
       /\ Len(ui.patterns[i]) = ui.sequencerLength
       /\ Len(dm.patterns[i]) = ui.sequencerLength
       /\ dm.patterns[i] = ui.patterns[i]

\* the loop was lengthened to 16 and a preset then loaded: flags beyond index 7
C18_Witness ==
  /\ ui.sequencerLength = 16
  /\ At(dm.patterns["tom"], 13) /\ At(dm.patterns["kick"], 12)

(* C19: lengthening the loop from a to b > a leaves, for every instrument,  *)
(* the flags at indices [0,a) as they were and makes the sequence b long   *)
(* with every flag at indices [a,b) false, in the UI's pattern state and   *)
(* in the scheduler's.                                                     *)
C19_GrowKeepsAndZeroFills ==
  [][ui'.sequencerLength > ui.sequencerLength =>
       LET a == ui.sequencerLength
           b == ui'.sequencerLength
       IN  \A i \in Instrument :
             /\ Len(ui'.patterns[i]) = b /\ Len(dm'.patterns[i]) = b
             /\ \A k \in 0..(a - 1) :
                   /\ ui'.patterns[i][k + 1] = ui.patterns[i][k + 1]
                   /\ dm'.patterns[i][k + 1] = dm.patterns[i][k + 1]
             /\ \A k \in a..(b - 1) :
                   ~ui'.patterns[i][k + 1] /\ ~dm'.patterns[i][k + 1]]_vars

\* a 16-step grid holding a preset's first 8 hat flags and none of its later
\* ones: the preset was loaded into a shorter loop, which was then lengthened
C19_Witness ==
  /\ ui.sequencerLength = 16
  /\ At(ui.patterns["hat"], 6) /\ ~At(ui.patterns["hat"], 10)
  /\ At(dm.patterns["hat"], 6) /\ ~At(dm.patterns["hat"], 10)

(* C20: shortening the loop from a to b < a leaves, for every instrument,   *)
(* the flags at indices [0,b) as they were and a sequence of length b, the *)
(* rest discarded; lengthening back to a then gives false at every index   *)
(* in [b,a), whatever flags were there before the shortening.              *)
C20_ShrinkDiscards ==
  [][ui'.sequencerLength < ui.sequencerLength =>
       LET a == ui.sequencerLength
           b == ui'.sequencerLength
           back == handleSequencerLengthChange(ui', dm', a)
       IN  \A i \in Instrument :
             /\ Len(ui'.patterns[i]) = b /\ Len(dm'.patterns[i]) = b
             /\ \A k \in 0..(b - 1) :
                   /\ ui'.patterns[i][k + 1] = ui.patterns[i][k + 1]
                   /\ dm'.patterns[i][k + 1] = dm.patterns[i][k + 1]
             /\ Len(back.u.patterns[i]) = a /\ Len(back.d.patterns[i]) = a
             /\ \A k \in 0..(b - 1) :
                   back.u.patterns[i][k + 1] = ui.patterns[i][k + 1]
             /\ \A k \in b..(a - 1) :
                   ~back.u.patterns[i][k + 1] /\ ~back.d.patterns[i][k + 1]]_vars

\* an 8-step grid holding a preset's hat flag at index 2 but not the one at
\* index 6, which every preset has: the loop, 8 long at first, was shortened
\* to 4, the preset loaded, and the loop lengthened back to 8
C20_Witness ==
  /\ ui.sequencerLength = 8
  /\ At(ui.patterns["hat"], 2) /\ ~At(ui.patterns["hat"], 6)
  /\ At(dm.patterns["hat"], 2) /\ ~At(dm.patterns["hat"], 6)

(* C21: from any grid, whatever its loop length n, clear() followed by    *)
(* loading preset B gives every instrument, in the UI's pattern state and  *)
(* in the scheduler's, a sequence of length n whose flag at each index     *)
(* i < n is B's flag for that instrument at i (false where B has none).    *)
C21_ClearThenPresetIsPreset ==
  \A b \in GridPresets :
    LET cleared == clearAllPatterns(ui, dm)
        loaded == handleGeneratePattern(cleared.u, cleared.d, b)
        n == ui.sequencerLength
    IN  /\ loaded.u.sequencerLength = n
        /\ \A i \in Instrument :
             /\ Len(loaded.u.patterns[i]) = n /\ Len(loaded.d.patterns[i]) = n
             /\ \A k \in 0..(n - 1) :
                   /\ loaded.u.patterns[i][k + 1] = At(PREMADE_BEATS[b][i], k)
                   /\ loaded.d.patterns[i][k + 1] = At(PREMADE_BEATS[b][i], k)

\* the 16-step grid holds the fourth preset, flag for flag
C21_Witness ==
  /\ ui.sequencerLength = 16
  /\ \A i \in Instrument :
       ui.patterns[i] = PREMADE_BEATS[4][i] /\ dm.patterns[i] = PREMADE_BEATS[4][i]

(* C22: from any grid, clear() leaves every instrument sequence, in the    *)
(* UI's pattern state and in the scheduler's, all false and as long as the *)
(* current loop length, which it does not change.                          *)
C22_ClearAllFalse ==
  LET cleared == clearAllPatterns(ui, dm)
      n == ui.sequencerLength
  IN  /\ cleared.u.sequencerLength = n
      /\ \A i \in Instrument :
           /\ Len(cleared.u.patterns[i]) = n /\ Len(cleared.d.patterns[i]) = n
           /\ \A k \in 1..n : ~cleared.u.patterns[i][k] /\ ~cleared.d.patterns[i][k]

\* a 4-step grid with every flag false in the UI and in the scheduler
C22_Witness ==
  /\ ui.sequencerLength = 4
  /\ \A i \in Instrument :
       ui.patterns[i] = ArrayFill(4) /\ dm.patterns[i] = ArrayFill(4)

(* C23 (as claimed): a step mutation with an index outside [0, loop         *)
(* length) changes no flag and no sequence length; one with an index       *)
(* inside changes exactly that flag of that instrument.  Stated of every   *)
(* step that is a toggleStep(instrument, stepIndex) call.                  *)
C23_StepMutationValidated ==
  [][\A instrument \in GridInstruments, stepIndex \in StoreSteps :
       LET r == toggleStep(ui, dm, instrument, stepIndex)
           old == ui.patterns[instrument]
       IN  (ui' = r.u /\ dm' = r.d) =>
             IF stepIndex \in 0..(ui.sequencerLength - 1)
             THEN /\ \A i \in Instrument \ {instrument} :
                       /\ ui'.patterns[i] = ui.patterns[i]
                       /\ dm'.patterns[i] = dm.patterns[i]
                  /\ Len(ui'.patterns[instrument]) = Len(old)
                  /\ dm'.patterns[instrument] = ui'.patterns[instrument]
                  /\ \A k \in 0..(Len(old) - 1) :
                       At(ui'.patterns[instrument], k) =
                         IF k = stepIndex THEN ~At(old, k) ELSE At(old, k)
             ELSE ui'.patterns = ui.patterns /\ dm'.patterns = dm.patterns]_vars

(* C24: a poll schedules every step from the pattern as the latest         *)
(* mutation left it: the scheduler's sequences are, whole, the ones the UI *)
(* last built (never part of an older one), and each step a poll advances  *)
(* past invokes exactly the instruments flagged there in the UI's pattern. *)
C24_PollSeesLatestPattern ==
  [][out'.op = "poll" =>
       /\ \A i \in Instrument : dm.patterns[i] = ui.patterns[i]
       /\ \A k \in 1..Len(out'.log) :
             IsStep(out'.log[k]) =>
               StepCalls(out'.log, k) =
                 Flagged(ui, (out'.log[k].step + StepModulus - 1) % StepModulus)]_vars

\* a poll has invoked the hat recipe for step 2 of a preset and nothing else
C24_Witness ==
  /\ out.op = "poll" /\ Len(out.log) = 2
  /\ IsRecipe(out.log[1]) /\ out.log[1].instrument = "hat" /\ out.log[1].step = 2
  /\ IsStep(out.log[2])

(* C25 (as claimed): every fire time handed to a recipe is not earlier     *)
(* than the audio clock's time at the invocation, however late the poll.   *)
C25_FireTimesInFuture ==
  \A j \in 1..Len(out.log) :
    IsRecipe(out.log[j]) => out.log[j].time >= now

(* C26: when stop() returns, every fire time handed to a recipe before is  *)
(* less than the clock's time plus the look-ahead window: a fire time is   *)
(* less than clock + window when it is handed out, the clock never goes    *)
(* back, and stop() hands out nothing and leaves the clock as it is.       *)
C26_ScheduledSoundWithinWindow ==
  [][/\ \A j \in 1..Len(out'.log) :
          IsRecipe(out'.log[j]) => out'.log[j].time < now' + scheduleAheadTime
     /\ now' >= now
     /\ out'.op = "stop" =>
          /\ out'.log = <<>> /\ now' = now
          /\ dm'.nextNoteTime = dm.nextNoteTime]_vars

\* stop() has returned while the step scheduled last, which has an active
\* flag, is still to sound
C26_Witness ==
  /\ out.op = "stop" /\ dm.timerId = NoTimer /\ dm.currentStep > 0
  /\ Flagged(dm, dm.currentStep - 1) # {}
  /\ dm.nextNoteTime - StepInterval(dm.tempo) > now
  /\ dm.nextNoteTime - StepInterval(dm.tempo) < now + scheduleAheadTime


(* C27 (as claimed): once the level meter's stop() has returned, the next  *)
(* animation frame runs no tick and dispatches no level event, whatever    *)
(* start() and stop() calls came before, start() twice in a row included.  *)
C27_NoTickAfterStop ==
  [][(meter.op = "stop" /\ meter'.op = "frame") => meter'.events = <<>>]_vars

(* C28 (as claimed): every level the meter dispatches lies in [0, 1], for  *)
(* every content of the byte array.                                        *)
C28_LevelInUnitRange ==
  \A j \in 1..Len(meter.events) :
    0 <= meter.events[j].num /\ meter.events[j].num <= meter.events[j].den

(* C29: while the meter runs on one start(), that is with its rafId the    *)
(* one pending frame callback, an animation frame dispatches exactly one   *)
(* level event and leaves the meter running on one pending callback again. *)
C29_OneEventPerFrame ==
  [][(/\ meter.callbacks = {meter.rafId}
      /\ meter.rafId # NoFrame
      /\ meter'.op = "frame")
     => /\ Len(meter'.events) = 1
        /\ meter'.callbacks = {meter'.rafId}
        /\ meter'.rafId # NoFrame]_vars

\* a frame of a meter started once has dispatched one level above zero
C29_Witness ==
  /\ meter.op = "frame"
  /\ meter.callbacks = {meter.rafId}
  /\ Len(meter.events) = 1
  /\ meter.events[1].num > 0

(* C30: a step that changes the DrumMachine's selected kit changes nothing *)
(* else: every sequence of the pattern, the tempo, the step index, the     *)
(* fire-time cursor, the poll timer and with it the running state, and the *)
(* grid's sequences, are as before.                                        *)
C30_SetKitOnlyChangesKit ==
  [][dm'.selectedKit # dm.selectedKit
     => /\ dm' = [dm EXCEPT !.selectedKit = dm'.selectedKit]
        /\ intervals' = intervals
        /\ ui'.patterns = ui.patterns
        /\ ui'.beatmakerIsPlaying = ui.beatmakerIsPlaying
        /\ ui'.beatmakerTempo = ui.beatmakerTempo]_vars

\* the kit was changed while the sequencer runs in mid-loop on a pattern
\* with an active flag
C30_Witness ==
  /\ dm.selectedKit = "Rock"
  /\ dm.timerId # NoTimer
  /\ dm.currentStep > 0
  /\ dm.nextNoteTime > 0
  /\ \E i \in Instrument : \E k \in 1..Len(dm.patterns[i]) : dm.patterns[i][k]


C32_TemposIndependent ==
  [][/\ ui'.beatmakerTempo # ui.beatmakerTempo
        => /\ ui'.launchpadTempo = ui.launchpadTempo
           /\ \A j \in 1..Len(out'.log) : ~IsPromptsChanged(out'.log[j])
     /\ ui'.launchpadTempo # ui.launchpadTempo
        => /\ ui'.beatmakerTempo = ui.beatmakerTempo
           /\ dm'.tempo = dm.tempo]_vars

\* the launchpad's tempo was just set, clamped to 180 and announced, while
\* the beatmaker plays at 150
C32_Witness ==
  /\ out.op = "launchpadTempo"
  /\ out.log = <<[kind |-> "prompts-changed", tempo |-> 180]>>
  /\ ui.launchpadTempo = 180
  /\ ui.beatmakerTempo = 150
  /\ dm.tempo = 150
  /\ dm.timerId # NoTimer


\* the orders in which n invocations can be made
Orders(n) == {p \in [1..n -> 1..n] : \A i, j \in 1..n : p[i] = p[j] => i = j}

\* the recipe calls of the step that the k-th entry of log closes, in order
StepCallSeq(log, k) ==
  LET at == StepCallsAt(log, k)
  IN  SubSeq(log, k - Cardinality(at), k - 1)

(* C33: for every step the last operation scheduled, invoking the recipes  *)
(* of the step in any order schedules the same set of sound events as the  *)
(* order scheduleNote uses, and leaves the DrumMachine's pattern, kit,      *)
(* tempo, step index and fire-time cursor as they are.                     *)
C33_RecipesOrderInsensitive ==
  \A k \in 1..Len(out.log) :
    IsStep(out.log[k]) =>
      LET calls == StepCallSeq(out.log, k)
          s0 == [graph |-> {}, d |-> dm]
          made == PlayAll(s0, calls)
      IN  \A p \in Orders(Len(calls)) :
            LET other == PlayAll(s0, [i \in 1..Len(calls) |-> calls[p[i]]])
            IN  /\ other.graph = made.graph
                /\ other.d = dm
                /\ made.d = dm

\* a poll scheduled a step with three active instruments, two of them
\* noise recipes
C33_Witness ==
  /\ out.op = "poll"
  /\ \E k \in 1..Len(out.log) :
       /\ IsStep(out.log[k])
       /\ StepCalls(out.log, k) = {"kick", "snare", "clap"}
       /\ Cardinality(PlayAll([graph |-> {}, d |-> dm], StepCallSeq(out.log, k)).graph) = 3


(* C34 (as claimed): when a poll returns, the fire-time cursor is at least *)
(* the clock's time plus the look-ahead window and less than that plus one *)
(* step interval of the tempo.                                             *)
C34_CursorJustPastWindow ==
  (out.op = "poll" /\ ~out.threw) =>
     /\ dm.nextNoteTime >= now + scheduleAheadTime
     /\ dm.nextNoteTime < now + scheduleAheadTime + StepInterval(dm.tempo)

(* C34 (amended): a poll, start()'s first one included, ends after         *)
(* finitely many advances.  When it returns the cursor is at least the     *)
(* clock's time plus the look-ahead window, and if the poll advanced at    *)
(* least one step the cursor is also less than that plus one step          *)
(* interval; a poll that advanced nothing leaves the cursor where it was.  *)
(* A poll that raises leaves the cursor where the failing step is.         *)
C34_CursorPastWindowAfterAdvance ==
  [][out'.op \in {"poll", "start"} =>
       LET ran == out'.op = "poll" \/ dm.timerId = NoTimer
           from == IF out'.op = "poll" THEN dm.nextNoteTime ELSE now
           n == Len(Events(out'))
       IN  /\ ran => dm'.nextNoteTime = from + n * StepInterval(dm.tempo)
           /\ (ran /\ ~out'.threw) =>
                 /\ dm'.nextNoteTime >= now + scheduleAheadTime
                 /\ n > 0 => dm'.nextNoteTime <
                               now + scheduleAheadTime + StepInterval(dm.tempo)
           /\ (ran /\ out'.threw) => dm'.nextNoteTime < now + scheduleAheadTime]_vars

\* a poll at tempo 180 returned after advancing two steps
C34_Witness ==
  /\ out.op = "poll" /\ ~out.threw
  /\ Len(Events(out)) = 2
  /\ dm.tempo = 180
  /\ dm.nextNoteTime >= now + scheduleAheadTime
  /\ dm.nextNoteTime < now + scheduleAheadTime + StepInterval(180)


(* C35 (as claimed): whatever play/pause toggles were made, the UI's       *)
(* beatmakerIsPlaying flag is true exactly when the DrumMachine has a live *)
(* poll timer, also after a start() whose first poll raised.               *)
C35_PlayingFlagMatchesTimer ==
  ui.beatmakerIsPlaying <=> (dm.timerId # NoTimer /\ dm.timerId \in intervals)


(* C36: after construction and after every pattern operation of the UI,    *)
(* the DrumMachine's sequence of each instrument is the UI's sequence of   *)
(* that instrument, in length and flag by flag.                            *)
C36_MachinePatternIsGridPattern ==
  \A i \in Instrument :
    /\ Len(dm.patterns[i]) = Len(ui.patterns[i])
    /\ \A k \in 1..Len(ui.patterns[i]) : dm.patterns[i][k] = ui.patterns[i][k]

\* a premade beat was loaded into a grid of four steps and the kick's last
\* cell toggled
C36_Witness ==
  /\ ui.sequencerLength = 4
  /\ Len(dm.patterns["kick"]) = 4
  /\ dm.patterns["kick"][4] /\ ui.patterns["kick"][4]
  /\ dm.patterns["hat"][3] /\ ui.patterns["hat"][3]


(* C37: the 'step' event dispatched after a step's recipes were invoked    *)
(* carries that step's index plus one, modulo 16: the events of a poll     *)
(* count on from the step index the poll found, those of a start() from 0, *)
(* so the first event after start() carries 1 and 0 is carried only by the *)
(* event that follows step 15; the UI's current step is the last payload.  *)
C37_EventCarriesNextIndex ==
  [][out'.op \in {"poll", "start"} =>
       LET from == IF out'.op = "start" /\ dm.timerId = NoTimer
                   THEN 0 ELSE dm.currentStep
           ev == Events(out')
       IN  /\ \A j \in 1..Len(ev) : ev[j].step = (from + j) % StepModulus
           /\ \A k \in 1..Len(out'.log) :
                 IsStep(out'.log[k]) =>
                   \A c \in StepCallsAt(out'.log, k) :
                     (out'.log[c].step + 1) % StepModulus = out'.log[k].step
           /\ ev # <<>> => ui'.currentStep = Last(ev).step]_vars

\* a poll scheduled step 15 with a recipe call and announced 0, the
\* sixteenth advance of its run
C37_Witness ==
  /\ out.op = "poll"
  /\ \E k \in 1..Len(out.log) :
       /\ IsStep(out.log[k]) /\ out.log[k].step = 0
       /\ \E c \in StepCallsAt(out.log, k) : out.log[c].step = 15
  /\ ui.currentStep = Last(Events(out)).step


(* C38: a cc-message that finds the button in learn mode sets cc and       *)
(* channel to the message's, ends learn mode, dispatches one               *)
(* 'prompt-changed' event and leaves the weight; one that finds it out of  *)
(* learn mode toggles the weight (and announces it) if its cc is the       *)
(* button's and its value is above 0, and changes nothing otherwise.       *)
C38_CcMessageLearnsOrToggles ==
  [][pad'.op = "cc" =>
       LET m == pad'.msg
       IN  IF pad.learnMode
           THEN /\ pad'.cc = m.cc /\ pad'.channel = m.channel
                /\ ~pad'.learnMode
                /\ pad'.weight = pad.weight
                /\ pad'.showCC = pad.showCC
                /\ pad'.events = <<[weight |-> pad.weight, cc |-> m.cc]>>
           ELSE IF m.cc = pad.cc /\ m.value > 0
                THEN /\ pad'.weight = (IF pad.weight > 0 THEN 0 ELSE 1)
                     /\ pad'.cc = pad.cc /\ pad'.channel = pad.channel
                     /\ pad'.learnMode = pad.learnMode /\ pad'.showCC = pad.showCC
                     /\ pad'.events = <<[weight |-> pad'.weight, cc |-> pad.cc]>>
                ELSE /\ pad'.weight = pad.weight
                     /\ pad'.cc = pad.cc /\ pad'.channel = pad.channel
                     /\ pad'.learnMode = pad.learnMode /\ pad'.showCC = pad.showCC
                     /\ pad'.events = <<>>]_vars

\* an active button has just learned cc 7 on channel 1 from a message with
\* a value above 0
C38_Witness ==
  /\ pad.op = "cc"
  /\ pad.msg = [channel |-> 1, cc |-> 7, value |-> 127]
  /\ pad.cc = 7 /\ pad.channel = 1
  /\ ~pad.learnMode /\ pad.showCC
  /\ pad.weight = 1
  /\ pad.events = <<[weight |-> 1, cc |-> 7]>>

(* C39: an update in which showCC changes to false leaves learnMode false. *)
C39_HidingEndsLearnMode ==
  [][(pad.showCC /\ ~pad'.showCC) => ~pad'.learnMode]_vars

\* the CC display was just hidden on a button that had learned cc 7; it is
\* out of learn mode
C39_Witness ==
  /\ pad.op = "showCC"
  /\ ~pad.showCC /\ ~pad.learnMode
  /\ pad.cc = 7

====
